---- MODULE Spec2Model ----
(***************************************************************************)
(* The in-memory login rate limiter (app/utils/rate_limiter.py) and the    *)
(* login flow that calls it (UserService.authenticate_user).               *)
(*                                                                         *)
(* Time is counted in whole seconds.  A dictionary is a function whose     *)
(* DOMAIN is the set of keys present.  Calls do not overlap: each action   *)
(* is one whole call.                                                      *)
(***************************************************************************)
EXTENDS Integers, FiniteSets, Sequences, TLC

\* ------------------------------------------------------------- bounds
TickSeconds == 15      \* the clock advances in steps of this many seconds
MaxTime == 120         \* the clock stops here
MaxCount == 3          \* no more attempts than this are recorded for a key
MaxRun == 4            \* no more calls than this are made in one run on a key
MaxLoginAttempts == 3  \* the value given to the setting max_login_attempts
MaxThreadTime == 45    \* the clock stops here while calls overlap
MaxCalls == 2          \* no thread makes more calls than this
MaxBuckets == 3        \* a bucket map stored by hand has no more buckets than this
MaxRetries == 3        \* the largest max_retries an initialize call is given
MaxInitializeCalls == 2  \* the calls of Database.initialize that are followed
LastAttemptTime == 45  \* where attempts stop: no record_attempt is made after this time

\* ---------------------------------------------------- program constants
MinuteSeconds == 60    \* now.replace(second=0, microsecond=0)

NoIP == "none"
Usernames == {"u1", "u2"}
IPs == {NoIP}

\* rate_limit_key = f"ip_{ip}:user_{username}" if ip else f"user_{username}"
RateLimitKey(ip, username) ==
    IF ip = NoIP THEN <<"user", username>> ELSE <<"ip", ip, "user", username>>

Keys == {RateLimitKey(ip, u) : ip \in IPs, u \in Usernames}

\* the usernames get_by_email finds a User for
RegisteredUsers == {"u1"}

\* no authenticate_user call has been made
NoResponse == [status |-> 0, stage |-> "none"]

None == -1             \* the Optional[datetime] None of a result

VARIABLES
    max_attempts,      \* self.max_attempts
    window_seconds,    \* self.window_seconds
    block_seconds,     \* self.block_seconds
    attempts,          \* self._attempts: key -> (bucket timestamp -> count)
    blocked_until,     \* self._blocked_until: key -> expiry time
    now,               \* datetime.now()
    last,              \* the last step: the call made, its key and its result
    run,               \* the calls made on one key since it had no entries
    users,             \* User rows: failed_login_attempts, is_locked
    response,          \* the outcome of the last authenticate_user call
    lock,              \* self._lock: the caller holding it
    thread,            \* each concurrent caller: its call, its position, its locals
    promised,          \* key -> expiry of the block of a record_attempt that returned true
    kept,              \* key -> (bucket -> attempts recorded by calls that returned)
    buckets,           \* one key's bucket map, its timestamps of any representation
    outcome,           \* what the last _cleanup or _count_recent_attempts on it did
    _engine,           \* Database._engine
    _session_factory,  \* Database._session_factory
    starting           \* the Database.initialize call: its position, locals and effects

vars == <<max_attempts, window_seconds, block_seconds, attempts, blocked_until, now,
          last, run, users, response, lock, thread, promised, kept, buckets, outcome,
          _engine, _session_factory, starting>>

\* the state of the concurrent callers
callers == <<lock, thread, promised, kept>>

\* the state of the bucket map with mixed timestamps
mixed == <<buckets, outcome>>

\* the state of the Database class
database == <<_engine, _session_factory, starting>>

\* ------------------------------------------------------- dictionaries
Del(f, k) == [x \in DOMAIN f \ {k} |-> f[x]]
Put(f, k, v) == [x \in DOMAIN f \cup {k} |-> IF x = k THEN v ELSE f[x]]
EmptyDict == [x \in {} |-> 0]

\* del d[k]: Python raises KeyError when k is not in d
PyDel(d, k) == [dict |-> Del(d, k), error |-> k \notin DOMAIN d]

RECURSIVE SumOver(_, _)
SumOver(f, S) ==
    IF S = {} THEN 0
    ELSE LET x == CHOOSE y \in S : TRUE IN f[x] + SumOver(f, S \ {x})

\* sum(d.values())
Sum(f) == SumOver(f, DOMAIN f)

\* the attempts stored for a key, over all its buckets
Recorded(att, key) == IF key \in DOMAIN att THEN Sum(att[key]) ELSE 0

\* now.replace(second=0, microsecond=0)
current_minute(t) == t - (t % MinuteSeconds)

\* ------------------------------------------------------- the limiter
\* the window test off by one: a bucket exactly window_seconds old is stale
in_window_strict(ts, cutoff) == ts > cutoff

\* _cleanup and _count_recent_attempts, "Now check if the timestamp is within
\* the window": ts_datetime >= cutoff
in_window(ts, cutoff) == ts >= cutoff

\* a cleanup that leaves the key with its empty bucket map
remove_empty_skipped(att, key) == att

\* _cleanup, "Remove empty entries": if not self._attempts[key]: del
remove_empty(att, key) == IF DOMAIN att[key] = {} THEN Del(att, key) ELSE att

\* RateLimiter._cleanup: keep the buckets with ts >= now - window_seconds,
\* drop the key when none is left.
_cleanup(att, key, t) ==
    IF key \notin DOMAIN att THEN att
    ELSE LET cutoff == t - window_seconds
             cleaned_attempts ==
                 [ts \in {x \in DOMAIN att[key] : in_window(x, cutoff)} |-> att[key][ts]]
         IN remove_empty(Put(att, key, cleaned_attempts), key)

\* RateLimiter._count_recent_attempts
_count_recent_attempts(att, key, t) ==
    IF key \notin DOMAIN att THEN 0
    ELSE LET cutoff == t - window_seconds
         IN SumOver(att[key], {x \in DOMAIN att[key] : in_window(x, cutoff)})

\* the comparison turned around: a block counts only once its time has passed
still_blocked_reversed(blk, key, t) == key \in DOMAIN blk /\ t > blk[key]

\* the expiry test off by one: a block still counts at now = blocked_until
still_blocked_inclusive(blk, key, t) == key \in DOMAIN blk /\ t <= blk[key]

\* is_rate_limited, "Still blocked": key in _blocked_until and now < _blocked_until[key]
still_blocked(blk, key, t) == key \in DOMAIN blk /\ t < blk[key]

\* the threshold test off by one: only a count above max_attempts is over the limit
over_limit_strict(recent_attempts) == recent_attempts > max_attempts

\* is_rate_limited, "Check if over limit": recent_attempts >= self.max_attempts
over_limit(recent_attempts) == recent_attempts >= max_attempts

\* an expiry that removes the block and keeps the attempts
expire_block_keeps_attempts(att, blk, key) == [att |-> att, blk |-> Del(blk, key)]

\* is_rate_limited, "Block expired, remove it and its associated attempts"
expire_block(att, blk, key) ==
    [att |-> IF key \in DOMAIN att THEN Del(att, key) ELSE att,
     blk |-> Del(blk, key)]

\* a lookup that creates what it does not find (a defaultdict): the key gets an
\* empty bucket map
no_attempts_defaultdict(att, key) ==
    [att |-> IF key \in DOMAIN att THEN att ELSE Put(att, key, EmptyDict),
     absent |-> key \notin DOMAIN att]

\* is_rate_limited, "if key not in self._attempts": the test reads and leaves
\* the dictionary as it is
no_attempts(att, key) == [att |-> att, absent |-> key \notin DOMAIN att]

\* RateLimiter.is_rate_limited, the part inside "with self._lock": whether the
\* call returns there and with what, whether the "Block expired" branch was
\* taken, and the dictionaries it leaves.
is_rate_limited_locked(att, blk, key, t) ==
    IF still_blocked(blk, key, t)
    THEN [returns |-> TRUE, is_limited |-> TRUE, blocked_until |-> blk[key],
          expired |-> FALSE, att |-> att, blk |-> blk]
    ELSE LET expired == key \in DOMAIN blk
             e == IF expired THEN expire_block(att, blk, key)
                  ELSE [att |-> att, blk |-> blk]
             n == no_attempts(e.att, key)
         IN [returns |-> n.absent, is_limited |-> FALSE, blocked_until |-> None,
             expired |-> expired, att |-> n.att, blk |-> e.blk]

\* RateLimiter.is_rate_limited: the result, whether the "Block expired"
\* branch was taken, and the dictionaries the call leaves.
is_rate_limited(att, blk, key, t) ==
    LET l == is_rate_limited_locked(att, blk, key, t) IN
    IF l.returns
    THEN [is_limited |-> l.is_limited, blocked_until |-> l.blocked_until,
          expired |-> l.expired, att |-> l.att, blk |-> l.blk]
    ELSE LET att2 == _cleanup(l.att, key, t)
             recent_attempts == _count_recent_attempts(att2, key, t)
         IN IF over_limit(recent_attempts)
            THEN [is_limited |-> TRUE, blocked_until |-> t + block_seconds,
                  expired |-> l.expired,
                  att |-> att2, blk |-> Put(l.blk, key, t + block_seconds)]
            ELSE [is_limited |-> FALSE, blocked_until |-> None,
                  expired |-> l.expired, att |-> att2, blk |-> l.blk]

\* the threshold test off by one: block only above max_attempts
should_block_strict(total_attempts) == total_attempts > max_attempts

\* record_attempt, "Check if we should block this key":
\* total_attempts >= self.max_attempts
should_block(total_attempts) == total_attempts >= max_attempts

\* RateLimiter.record_attempt: the result and the dictionaries it leaves.
record_attempt(att, blk, key, t) ==
    LET att1 == IF key \notin DOMAIN att THEN Put(att, key, EmptyDict) ELSE att
        att2 == _cleanup(att1, key, t)
        att3 == IF key \notin DOMAIN att2 THEN Put(att2, key, EmptyDict) ELSE att2
        minute == current_minute(t)
        old == IF minute \in DOMAIN att3[key] THEN att3[key][minute] ELSE 0
        att4 == Put(att3, key, Put(att3[key], minute, old + 1))
        total_attempts == Sum(att4[key])
    IN IF should_block(total_attempts)
       THEN [ret |-> TRUE, att |-> att4, blk |-> Put(blk, key, t + block_seconds)]
       ELSE [ret |-> FALSE, att |-> att4, blk |-> blk]

\* reset that lifts the block and keeps the attempts
reset_keeps_attempts(att, blk, key) ==
    [att |-> att, blk |-> Del(blk, key), error |-> FALSE]

\* reset that forgets the attempts and keeps the block
reset_keeps_block(att, blk, key) ==
    [att |-> Del(att, key), blk |-> blk, error |-> FALSE]

\* reset without the "if key in" guards: del raises for an absent key
reset_unguarded(att, blk, key) ==
    [att |-> PyDel(att, key).dict, blk |-> PyDel(blk, key).dict,
     error |-> PyDel(att, key).error \/ PyDel(blk, key).error]

\* reset that empties both dictionaries for every key
reset_clears_all(att, blk, key) ==
    [att |-> EmptyDict, blk |-> EmptyDict, error |-> FALSE]

\* RateLimiter.reset: the dictionaries it leaves and whether a del raised.
reset(att, blk, key) ==
    LET a == IF key \in DOMAIN att THEN PyDel(att, key)
             ELSE [dict |-> att, error |-> FALSE]
        b == IF key \in DOMAIN blk THEN PyDel(blk, key)
             ELSE [dict |-> blk, error |-> FALSE]
    IN [att |-> a.dict, blk |-> b.dict, error |-> a.error \/ b.error]

\* ----------------------------------------------------- the login flow
\* get_settings().max_login_attempts
max_login_attempts == MaxLoginAttempts

\* what authenticate_user leaves when it raises or returns
Outcome(status, stage, att, blk, usr) ==
    [status |-> status, stage |-> stage, att |-> att, blk |-> blk, users |-> usr]

\* authenticate_user, "if not verify_password(...)": count the failure, lock
\* the account at max_login_attempts
failed_login(usr, username) ==
    LET failed == usr[username].failed_login_attempts + 1 IN
    [usr EXCEPT ![username] =
        [failed_login_attempts |-> failed,
         is_locked |-> IF failed >= max_login_attempts THEN TRUE ELSE @.is_locked]]

\* a login that does not look at the lock
account_locked_ignored(usr, username) == FALSE

\* authenticate_user, "if user.is_locked"
account_locked(usr, username) == usr[username].is_locked

\* the User row of an account that is open, with no failures counted
Opened(usr, user_id) ==
    [usr EXCEPT ![user_id] = [failed_login_attempts |-> 0, is_locked |-> FALSE]]

\* an unlock that also reports success for an account that was not locked
unlock_user_account_any(usr, user_id) ==
    IF user_id \in DOMAIN usr
    THEN [ret |-> TRUE, users |-> Opened(usr, user_id)]
    ELSE [ret |-> FALSE, users |-> usr]

\* UserService.unlock_user_account: what it returns and the rows it leaves
unlock_user_account(usr, user_id) ==
    IF user_id \in DOMAIN usr /\ usr[user_id].is_locked
    THEN [ret |-> TRUE, users |-> Opened(usr, user_id)]
    ELSE [ret |-> FALSE, users |-> usr]

\* UserService.reset_password: what it returns and the rows it leaves; the new
\* password shows in the password_ok of the logins that follow
reset_password(usr, user_id) ==
    IF user_id \in DOMAIN usr
    THEN [ret |-> TRUE, users |-> Opened(usr, user_id)]
    ELSE [ret |-> FALSE, users |-> usr]

\* UserService.authenticate_user: the HTTP status it ends with (200 when it
\* returns the user), the stage it ended at, and the state it leaves.
authenticate_user(att, blk, usr, ip, username, password_ok, t) ==
    LET key == RateLimitKey(ip, username)
        pre == is_rate_limited(att, blk, key, t)
        rec == record_attempt(pre.att, pre.blk, key, t)
        post == is_rate_limited(rec.att, rec.blk, key, t)
        done == reset(rec.att, rec.blk, key)
    IN IF pre.is_limited
       THEN Outcome(429, "preflight", pre.att, pre.blk, usr)
       ELSE IF rec.ret
       THEN Outcome(429, "recorded", post.att, post.blk, usr)
       ELSE IF username \notin DOMAIN usr
       THEN Outcome(401, "not_found", rec.att, rec.blk, usr)
       ELSE IF ~password_ok
       THEN Outcome(401, "bad_password", rec.att, rec.blk, failed_login(usr, username))
       ELSE IF account_locked(usr, username)
       THEN Outcome(401, "locked", rec.att, rec.blk, usr)
       ELSE Outcome(200, "ok", done.att, done.blk,
                    [usr EXCEPT ![username].failed_login_attempts = 0])

\* ------------------------------------------------------------ actions
Config == <<max_attempts, window_seconds, block_seconds>>

NoKey == <<"none">>    \* the key of a step that is no call on a key

NoRun == [key |-> NoKey, n |-> 0, first |-> 0]

\* what `last` holds after a step that is no call on a key
NoCall(op) ==
    [op |-> op, key |-> NoKey, is_limited |-> FALSE, until |-> None,
     expired |-> FALSE, stored |-> None, recent |-> 0]

\* what `last` holds after a call: the call, what it returned, whether it took
\* the "Block expired" branch, and what it found for the key when it began (the
\* stored block, the attempts inside the window)
Called(op, key, is_limited, until, expired) ==
    [op |-> op, key |-> key, is_limited |-> is_limited, until |-> until,
     expired |-> expired,
     stored |-> IF key \in DOMAIN blocked_until THEN blocked_until[key] ELSE None,
     recent |-> _count_recent_attempts(attempts, key, now)]

\* the concurrent callers of one limiter instance
Threads == {"A", "B"}

NoThread == "none"     \* the lock is free

\* what a call has returned or raised so far: nothing
NoResult == [is_limited |-> FALSE, blocked_until |-> None, raised |-> "none"]

\* a caller that is in no call
Idle ==
    [pc |-> "idle", op |-> "none", key |-> NoKey, now |-> 0,
     cleaned_attempts |-> EmptyDict, recent_attempts |-> 0,
     result |-> NoResult, must |-> None, calls |-> 0]

\* no _cleanup or _count_recent_attempts has run on the mixed bucket map
NoOutcome == [op |-> "none", raised |-> "none", count |-> 0]

\* a class attribute or local that holds None
Unset == "None"

\* no Database.initialize call has been made
NotStarting ==
    [pc |-> "idle", max_retries |-> 0, retry_count |-> 0, last_error |-> Unset,
     created |-> 0, slept |-> 0, result |-> "none", raised |-> "none",
     calls |-> 0, got |-> "none"]

\* the Database class as loaded
Loaded == _engine = Unset /\ _session_factory = Unset /\ starting = NotStarting

\* RateLimiter.__init__, for the configurations the model explores; no caller
\* is in a call
Constructed ==
    /\ max_attempts \in 1..3
    /\ window_seconds \in {30, 90}
    /\ block_seconds \in {30, 75}
    /\ attempts = EmptyDict
    /\ blocked_until = EmptyDict
    /\ now = 0
    /\ last = NoCall("init")
    /\ run = NoRun
    /\ users = [u \in RegisteredUsers |-> [failed_login_attempts |-> 0, is_locked |-> FALSE]]
    /\ response = NoResponse
    /\ lock = NoThread
    /\ thread = [th \in Threads |-> Idle]
    /\ promised = EmptyDict
    /\ kept = EmptyDict
    /\ outcome = NoOutcome
    /\ Loaded

\* the limiter as constructed
Init == Constructed /\ buckets = EmptyDict

\* time passes
ClockStep ==
    /\ now + TickSeconds <= MaxTime
    /\ now' = now + TickSeconds
    /\ last' = NoCall("tick")
    /\ UNCHANGED <<Config, attempts, blocked_until>>

\* one is_rate_limited(key) call
IsRateLimitedCall(key) ==
    LET r == is_rate_limited(attempts, blocked_until, key, now) IN
    /\ attempts' = r.att
    /\ blocked_until' = r.blk
    /\ last' = Called("is_rate_limited", key, r.is_limited, r.blocked_until, r.expired)
    /\ UNCHANGED <<Config, now>>

\* one record_attempt(key) call
RecordAttemptCall(key) ==
    LET r == record_attempt(attempts, blocked_until, key, now) IN
    /\ attempts' = r.att
    /\ blocked_until' = r.blk
    /\ last' = Called("record_attempt", key, r.ret, None, FALSE)
    /\ UNCHANGED <<Config, now>>

\* one reset(key) call
ResetCall(key) ==
    LET r == reset(attempts, blocked_until, key) IN
    /\ ~r.error
    /\ attempts' = r.att
    /\ blocked_until' = r.blk
    /\ last' = Called("reset", key, FALSE, None, FALSE)
    /\ UNCHANGED <<Config, now>>

\* --- Spec: any calls on any keys, in any order, as time passes
Tick == ClockStep /\ UNCHANGED <<run, users, response, callers, mixed, database>>

IsRateLimited(key) == IsRateLimitedCall(key) /\ UNCHANGED <<run, users, response, callers, mixed, database>>

RecordAttempt(key) ==
    /\ Recorded(attempts, key) < MaxCount
    /\ RecordAttemptCall(key)
    /\ UNCHANGED <<run, users, response, callers, mixed, database>>

Reset(key) == ResetCall(key) /\ UNCHANGED <<run, users, response, callers, mixed, database>>

Next ==
    \/ Tick
    \/ \E key \in Keys : IsRateLimited(key)
    \/ \E key \in Keys : RecordAttempt(key)
    \/ \E key \in Keys : Reset(key)

Spec == Init /\ [][Next]_vars

\* --- SpecRun: runs of record_attempt calls on one key, each run starting when
\* the key has no entries and counted in `run`; an is_rate_limited call that
\* changes the dictionaries, or a reset, ends the run.
Fresh(key) == key \notin DOMAIN attempts /\ key \notin DOMAIN blocked_until

\* the run after one more call on the key
Extended(key) ==
    [key |-> key, n |-> run.n + 1, first |-> IF run.n = 0 THEN now ELSE run.first]

\* no run is going on for the key
Ended(key) == [key |-> key, n |-> 0, first |-> 0]

\* a call on the key may join the run, or start one
Joins(key) ==
    /\ run.n < MaxRun
    /\ run.key \in {NoKey, key}
    /\ run.n = 0 => Fresh(key)

RunTick == ClockStep /\ UNCHANGED <<run, users, response, callers, mixed, database>>

RunRecord(key) ==
    /\ Joins(key)
    /\ RecordAttemptCall(key)
    /\ run' = Extended(key)
    /\ UNCHANGED <<users, response, callers, mixed, database>>

RunCheck(key) ==
    /\ run.n > 0
    /\ run.key = key
    /\ IsRateLimitedCall(key)
    /\ run' = IF attempts' = attempts /\ blocked_until' = blocked_until
              THEN run ELSE Ended(key)
    /\ UNCHANGED <<users, response, callers, mixed, database>>

RunReset(key) ==
    /\ run.key = key
    /\ ResetCall(key)
    /\ run' = Ended(key)
    /\ UNCHANGED <<users, response, callers, mixed, database>>

NextRun ==
    \/ RunTick
    \/ \E key \in Keys : RunRecord(key)
    \/ \E key \in Keys : RunCheck(key)
    \/ \E key \in Keys : RunReset(key)

SpecRun == Init /\ [][NextRun]_vars

\* --- SpecLogin: login requests for one key, the key starting with no entries;
\* `run` counts the requests made with failing credentials since then.
LoginTick == ClockStep /\ UNCHANGED <<run, users, response, callers, mixed, database>>

\* one authenticate_user(db, username, password, ip_address) call
Login(ip, username, password_ok) ==
    LET key == RateLimitKey(ip, username)
        o == authenticate_user(attempts, blocked_until, users, ip, username,
                               password_ok, now)
        failing == username \notin DOMAIN users \/ ~password_ok
    IN /\ Joins(key)
       /\ attempts' = o.att
       /\ blocked_until' = o.blk
       /\ users' = o.users
       /\ response' = [status |-> o.status, stage |-> o.stage]
       /\ last' = Called("authenticate_user", key, o.status = 429, None, FALSE)
       /\ run' = IF failing THEN Extended(key) ELSE Ended(key)
       /\ UNCHANGED <<Config, now, callers, mixed, database>>

NextLogin ==
    \/ LoginTick
    \/ \E ip \in IPs, username \in Usernames, password_ok \in BOOLEAN :
           Login(ip, username, password_ok)

SpecLogin == Init /\ [][NextLogin]_vars

\* --- SpecAccount: the login requests of SpecLogin, and between them the
\* calls that open a locked account again.
\* one unlock_user_account(session, user_id) call
UnlockUserAccount(user_id) ==
    LET r == unlock_user_account(users, user_id) IN
    /\ users' = r.users
    /\ response' = [status |-> IF r.ret THEN 1 ELSE 0, stage |-> "unlock_user_account"]
    /\ last' = NoCall("unlock_user_account")
    /\ UNCHANGED <<Config, attempts, blocked_until, now, run, callers, mixed, database>>

\* one reset_password(session, user_id, new_password) call
ResetPassword(user_id) ==
    LET r == reset_password(users, user_id) IN
    /\ users' = r.users
    /\ response' = [status |-> IF r.ret THEN 1 ELSE 0, stage |-> "reset_password"]
    /\ last' = NoCall("reset_password")
    /\ UNCHANGED <<Config, attempts, blocked_until, now, run, callers, mixed, database>>

NextAccount ==
    \/ LoginTick
    \/ \E ip \in IPs, username \in Usernames, password_ok \in BOOLEAN :
           Login(ip, username, password_ok)
    \/ \E user_id \in Usernames : UnlockUserAccount(user_id)
    \/ \E user_id \in Usernames : ResetPassword(user_id)

\* a login limiter that lets max_login_attempts failures through
InitAccount ==
    /\ Init
    /\ max_attempts = 3
    /\ window_seconds = 30

SpecAccount == InitAccount /\ [][NextAccount]_vars

\* --- SpecThreads: two threads call the limiter on one key, their calls
\* overlapping.  A call reads the clock, then takes the lock.  What a call does
\* while it holds the lock is one step (the calls that hold no lock cannot
\* take it in between); what is_rate_limited does after it has left the
\* "with self._lock" block is a step for each access to the dictionaries.
ThreadKeys == {RateLimitKey(NoIP, "u1")}

Ops == {"is_rate_limited", "record_attempt", "reset"}

\* the steps of is_rate_limited that come after the "with self._lock" block
UnlockedPcs == {"cleanup", "filter", "store", "empty", "count", "sum", "decide"}

\* the positions whose next step reads or writes _attempts or _blocked_until
AccessPcs == {"locked"} \cup UnlockedPcs

\* the thread goes on with the given locals
Goes(th, locals) == thread' = [thread EXCEPT ![th] = locals]

\* the thread's call ends with a return value
Returns(th, is_limited, until) ==
    [thread[th] EXCEPT !.pc = "done",
                       !.result = [is_limited |-> is_limited, blocked_until |-> until,
                                   raised |-> "none"]]

\* the thread's call ends with an exception
Raises(th, exception) ==
    [thread[th] EXCEPT !.pc = "raised", !.result.raised = exception]

\* what the sequential specifications keep and a step of a thread leaves alone
Aside == <<Config, last, run, users, response, mixed, database>>

\* the ghost dictionaries once reset is called on the key, or its block expires
Forget(d, key) == IF key \in DOMAIN d THEN Del(d, key) ELSE d

\* a thread calls op(key): "now = datetime.now()", before the lock is taken
Call(th, op, key) ==
    /\ thread[th].pc = "idle"
    /\ thread[th].calls < MaxCalls
    /\ op = "record_attempt" => Recorded(attempts, key) < MaxCount
    /\ thread' = [o \in Threads |->
           IF o = th
           THEN [Idle EXCEPT !.pc = "acquire", !.op = op, !.key = key, !.now = now,
                             !.calls = thread[th].calls + 1,
                             !.must = IF /\ op = "is_rate_limited"
                                         /\ key \in DOMAIN promised
                                         /\ now < promised[key]
                                      THEN promised[key] ELSE None]
           ELSE IF op = "reset" /\ thread[o].key = key
           THEN [thread[o] EXCEPT !.must = None]
           ELSE thread[o]]
    /\ promised' = IF op = "reset" THEN Forget(promised, key) ELSE promised
    /\ kept' = IF op = "reset" THEN Forget(kept, key) ELSE kept
    /\ UNCHANGED <<attempts, blocked_until, now, lock, Aside>>

\* a "with" block that keeps the lock when it is left
release_skipped(th) == th

\* "with self._lock:" left, by the end of the block, a return or an exception:
\* the lock is free again
release(th) == NoThread

\* "with self._lock:" entered
Acquire(th) ==
    /\ thread[th].pc = "acquire"
    /\ lock = NoThread
    /\ lock' = th
    /\ Goes(th, [thread[th] EXCEPT !.pc = "locked"])
    /\ UNCHANGED <<attempts, blocked_until, now, promised, kept, Aside>>

\* is_rate_limited, lines 57-72, and the lock released
LockedCheck(th) ==
    LET me == thread[th]
        l == is_rate_limited_locked(attempts, blocked_until, me.key, me.now)
    IN /\ me.pc = "locked"
       /\ me.op = "is_rate_limited"
       /\ lock = th
       /\ attempts' = l.att
       /\ blocked_until' = l.blk
       /\ lock' = release(th)
       /\ Goes(th, IF l.returns THEN Returns(th, l.is_limited, l.blocked_until)
                   ELSE [me EXCEPT !.pc = "cleanup"])
       /\ kept' = IF l.expired THEN Forget(kept, me.key) ELSE kept
       /\ UNCHANGED <<now, promised, Aside>>

\* the bucket map with one more attempt in the bucket
Counted(b, ts) == Put(b, ts, IF ts \in DOMAIN b THEN b[ts] + 1 ELSE 1)

\* record_attempt, lines 101-122, and the lock released; the call returns
\* without touching the dictionaries again
LockedRecord(th) ==
    LET me == thread[th]
        r == record_attempt(attempts, blocked_until, me.key, me.now)
        mine == IF me.key \in DOMAIN kept THEN kept[me.key] ELSE EmptyDict
    IN /\ me.pc = "locked"
       /\ me.op = "record_attempt"
       /\ lock = th
       /\ attempts' = r.att
       /\ blocked_until' = r.blk
       /\ lock' = release(th)
       /\ Goes(th, Returns(th, r.ret, None))
       /\ kept' = Put(kept, me.key, Counted(mine, current_minute(me.now)))
       /\ promised' = IF r.ret THEN Put(promised, me.key, r.blk[me.key]) ELSE promised
       /\ UNCHANGED <<now, Aside>>

\* reset, lines 132-135, and the lock released
LockedReset(th) ==
    LET me == thread[th]
        r == reset(attempts, blocked_until, me.key)
    IN /\ me.pc = "locked"
       /\ me.op = "reset"
       /\ lock = th
       /\ attempts' = r.att
       /\ blocked_until' = r.blk
       /\ lock' = release(th)
       /\ thread' = [o \in Threads |->
              IF o = th
              THEN IF r.error THEN Raises(th, "KeyError") ELSE Returns(th, FALSE, None)
              ELSE IF thread[o].key = me.key THEN [thread[o] EXCEPT !.must = None]
              ELSE thread[o]]
       /\ promised' = Forget(promised, me.key)
       /\ kept' = Forget(kept, me.key)
       /\ UNCHANGED <<now, Aside>>

\* a step of is_rate_limited made after the lock was released
Unlocked(th, pc) ==
    /\ thread[th].pc = pc
    /\ thread[th].op = "is_rate_limited"
    /\ UNCHANGED <<now, lock, promised, kept, Aside>>

\* _cleanup, line 145: "if key not in self._attempts: return"
CleanupCheck(th) ==
    LET me == thread[th] IN
    /\ Unlocked(th, "cleanup")
    /\ Goes(th, [me EXCEPT !.pc = IF me.key \in DOMAIN attempts THEN "filter" ELSE "count"])
    /\ UNCHANGED <<attempts, blocked_until>>

\* _cleanup, lines 150-174: cleaned_attempts built from self._attempts[key]
CleanupFilter(th) ==
    LET me == thread[th]
        cutoff == me.now - window_seconds
    IN /\ Unlocked(th, "filter")
       /\ Goes(th, IF me.key \notin DOMAIN attempts THEN Raises(th, "KeyError")
                   ELSE [me EXCEPT !.pc = "store",
                                   !.cleaned_attempts =
                                       [ts \in {x \in DOMAIN attempts[me.key] : x >= cutoff}
                                           |-> attempts[me.key][ts]]])
       /\ UNCHANGED <<attempts, blocked_until>>

\* _cleanup, line 176: self._attempts[key] = cleaned_attempts
CleanupStore(th) ==
    LET me == thread[th] IN
    /\ Unlocked(th, "store")
    /\ attempts' = Put(attempts, me.key, me.cleaned_attempts)
    /\ Goes(th, [me EXCEPT !.pc = "empty", !.cleaned_attempts = EmptyDict])
    /\ UNCHANGED blocked_until

\* _cleanup, lines 179-180: "if not self._attempts[key]: del self._attempts[key]"
CleanupEmpty(th) ==
    LET me == thread[th] IN
    /\ Unlocked(th, "empty")
    /\ attempts' = IF me.key \in DOMAIN attempts /\ DOMAIN attempts[me.key] = {}
                   THEN Del(attempts, me.key) ELSE attempts
    /\ Goes(th, IF me.key \notin DOMAIN attempts THEN Raises(th, "KeyError")
                ELSE [me EXCEPT !.pc = "count"])
    /\ UNCHANGED blocked_until

\* _count_recent_attempts, lines 193-194: "if key not in self._attempts: return 0"
CountCheck(th) ==
    LET me == thread[th] IN
    /\ Unlocked(th, "count")
    /\ Goes(th, IF me.key \in DOMAIN attempts THEN [me EXCEPT !.pc = "sum"]
                ELSE [me EXCEPT !.pc = "decide", !.recent_attempts = 0])
    /\ UNCHANGED <<attempts, blocked_until>>

\* _count_recent_attempts, lines 196-220: the buckets of self._attempts[key] summed
CountSum(th) ==
    LET me == thread[th] IN
    /\ Unlocked(th, "sum")
    /\ Goes(th, IF me.key \notin DOMAIN attempts THEN Raises(th, "KeyError")
                ELSE [me EXCEPT !.pc = "decide",
                                !.recent_attempts =
                                    _count_recent_attempts(attempts, me.key, me.now)])
    /\ UNCHANGED <<attempts, blocked_until>>

\* is_rate_limited, lines 81-87: the block installed when over the limit
Decide(th) ==
    LET me == thread[th]
        until == me.now + block_seconds
    IN /\ Unlocked(th, "decide")
       /\ blocked_until' = IF over_limit(me.recent_attempts)
                            THEN Put(blocked_until, me.key, until) ELSE blocked_until
       /\ Goes(th, IF over_limit(me.recent_attempts)
                   THEN [Returns(th, TRUE, until) EXCEPT !.recent_attempts = 0]
                   ELSE [Returns(th, FALSE, None) EXCEPT !.recent_attempts = 0])
       /\ UNCHANGED attempts

\* the call is over: the thread has its return value or its exception
Return(th) ==
    /\ thread[th].pc \in {"done", "raised"}
    /\ Goes(th, [Idle EXCEPT !.calls = thread[th].calls])
    /\ UNCHANGED <<attempts, blocked_until, now, lock, promised, kept, Aside>>

\* time passes, whatever the threads are at
ThreadTick ==
    /\ now + TickSeconds <= MaxThreadTime
    /\ ClockStep
    /\ UNCHANGED <<run, users, response, callers, mixed, database>>

NextThreads ==
    \/ ThreadTick
    \/ \E th \in Threads, op \in Ops, key \in ThreadKeys : Call(th, op, key)
    \/ \E th \in Threads : Acquire(th)
    \/ \E th \in Threads : LockedCheck(th)
    \/ \E th \in Threads : LockedRecord(th)
    \/ \E th \in Threads : LockedReset(th)
    \/ \E th \in Threads : CleanupCheck(th)
    \/ \E th \in Threads : CleanupFilter(th)
    \/ \E th \in Threads : CleanupStore(th)
    \/ \E th \in Threads : CleanupEmpty(th)
    \/ \E th \in Threads : CountCheck(th)
    \/ \E th \in Threads : CountSum(th)
    \/ \E th \in Threads : Decide(th)
    \/ \E th \in Threads : Return(th)

\* the limiter the threads share: a window and a block of two steps of the clock
InitThreads ==
    /\ Init
    /\ max_attempts \in {1, 2}
    /\ window_seconds = 30
    /\ block_seconds = 30

SpecThreads == InitThreads /\ [][NextThreads]_vars

\* --- SpecMixed: _cleanup and _count_recent_attempts on a bucket map whose
\* timestamps are datetime objects and strings (what the tests store by hand).
\* A timestamp is a pair of its type and its value.
Datetime(t) == <<"datetime", t>>
Str(text) == <<"str", text>>

\* the strings tried as timestamps
Texts == {"30", "45.9", "invalid_timestamp", "nan", "inf", "1e30"}

\* float(ts): the number, or ValueError for a string that is no number
py_float(text) ==
    CASE text = "30" -> [raised |-> "none", kind |-> "finite", whole |-> 30]
      [] text = "45.9" -> [raised |-> "none", kind |-> "finite", whole |-> 45]
      [] text = "1e30" -> [raised |-> "none", kind |-> "huge", whole |-> 0]
      [] text = "nan" -> [raised |-> "none", kind |-> "nan", whole |-> 0]
      [] text = "inf" -> [raised |-> "none", kind |-> "inf", whole |-> 0]
      [] OTHER -> [raised |-> "ValueError", kind |-> "none", whole |-> 0]

\* int(float(ts)): truncation; ValueError for nan, OverflowError for infinity
py_int(f) ==
    IF f.raised # "none" THEN f
    ELSE IF f.kind = "nan" THEN [f EXCEPT !.raised = "ValueError"]
    ELSE IF f.kind = "inf" THEN [f EXCEPT !.raised = "OverflowError"]
    ELSE f

\* datetime.fromtimestamp(ts_int): OverflowError for a number out of range
fromtimestamp(i) ==
    IF i.raised # "none" THEN i
    ELSE IF i.kind = "huge" THEN [i EXCEPT !.raised = "OverflowError"]
    ELSE i

\* the "try" block of both loops: the time a string stands for, or what
\* the conversion raised
convert(text) == fromtimestamp(py_int(py_float(text)))

\* "except (ValueError, TypeError)"
Caught == {"ValueError", "TypeError"}

\* _cleanup, the loop body (lines 154-174) for one bucket: kept, dropped, or
\* the exception that leaves the loop
cleanup_bucket(ts, t) ==
    LET cutoff == t - window_seconds IN
    IF ts[1] = "str"
    THEN LET c == convert(ts[2]) IN
         IF c.raised \in Caught THEN "kept"
         ELSE IF c.raised # "none" THEN c.raised
         ELSE IF c.whole >= cutoff THEN "kept" ELSE "dropped"
    ELSE IF ts[2] >= cutoff THEN "kept" ELSE "dropped"

\* _count_recent_attempts, the loop body (lines 199-218) for one bucket:
\* counted, skipped, or the exception that leaves the loop
count_bucket(ts, t) ==
    LET cutoff == t - window_seconds IN
    IF ts[1] = "str"
    THEN LET c == convert(ts[2]) IN
         IF c.raised \in Caught THEN (IF t >= cutoff THEN "counted" ELSE "skipped")
         ELSE IF c.raised # "none" THEN c.raised
         ELSE IF c.whole >= cutoff THEN "counted" ELSE "skipped"
    ELSE IF ts[2] >= cutoff THEN "counted" ELSE "skipped"

\* the exceptions the loop bodies raise for the buckets of a map
Escaping(results) == results \ {"kept", "dropped", "counted", "skipped"}

\* RateLimiter._cleanup on a map of mixed timestamps: what it raised and
\* the dictionary it leaves
cleanup_mixed(att, key, t) ==
    IF key \notin DOMAIN att THEN [raised |-> "none", att |-> att]
    ELSE LET b == att[key]
             raised == Escaping({cleanup_bucket(ts, t) : ts \in DOMAIN b})
             cleaned_attempts ==
                 [ts \in {x \in DOMAIN b : cleanup_bucket(x, t) = "kept"} |-> b[ts]]
         IN IF raised # {}
            THEN [raised |-> CHOOSE e \in raised : TRUE, att |-> att]
            ELSE [raised |-> "none",
                  att |-> IF DOMAIN cleaned_attempts = {} THEN Del(att, key)
                          ELSE Put(att, key, cleaned_attempts)]

\* RateLimiter._count_recent_attempts on a map of mixed timestamps: what it
\* raised and the count it returns
count_mixed(att, key, t) ==
    IF key \notin DOMAIN att THEN [raised |-> "none", count |-> 0]
    ELSE LET b == att[key]
             raised == Escaping({count_bucket(ts, t) : ts \in DOMAIN b})
         IN IF raised # {}
            THEN [raised |-> CHOOSE e \in raised : TRUE, count |-> 0]
            ELSE [raised |-> "none",
                  count |-> SumOver(b, {x \in DOMAIN b : count_bucket(x, t) = "counted"})]

\* the timestamps a bucket is stored under by hand
Timestamps == {Datetime(0), Datetime(60)} \cup {Str(text) : text \in Texts}

\* the key whose bucket map is stored by hand
MixedKey == RateLimitKey(NoIP, "u1")

\* limiter._attempts[key] = {...}: some buckets of one attempt each
InitMixed ==
    /\ Constructed
    /\ max_attempts = 3
    /\ block_seconds = 30
    /\ \E stored \in SUBSET Timestamps :
           /\ Cardinality(stored) <= MaxBuckets
           /\ buckets = Put(EmptyDict, MixedKey, [ts \in stored |-> 1])

\* what a step on the mixed bucket map leaves alone
Rest == <<Config, attempts, blocked_until, now, last, run, users, response, callers,
         database>>

\* limiter._cleanup(key, now)
MixedCleanup(key) ==
    LET r == cleanup_mixed(buckets, key, now) IN
    /\ buckets' = r.att
    /\ outcome' = [op |-> "_cleanup", raised |-> r.raised, count |-> 0]
    /\ UNCHANGED Rest

\* limiter._count_recent_attempts(key, now)
MixedCount(key) ==
    LET r == count_mixed(buckets, key, now) IN
    /\ outcome' = [op |-> "_count_recent_attempts", raised |-> r.raised, count |-> r.count]
    /\ UNCHANGED <<buckets, Rest>>

MixedTick == ClockStep /\ UNCHANGED <<run, users, response, callers, mixed, database>>

NextMixed ==
    \/ MixedTick
    \/ MixedCleanup(MixedKey)
    \/ MixedCount(MixedKey)

SpecMixed == InitMixed /\ [][NextMixed]_vars

\* --- SpecAnyThreshold: the calls of Spec on a limiter constructed with any
\* threshold the constructor accepts; __init__ stores max_attempts as given,
\* zero included.
InitAnyThreshold ==
    /\ max_attempts \in 0..2
    /\ window_seconds = 30
    /\ block_seconds \in {30, 75}
    /\ attempts = EmptyDict
    /\ blocked_until = EmptyDict
    /\ now = 0
    /\ last = NoCall("init")
    /\ run = NoRun
    /\ users = [u \in RegisteredUsers |-> [failed_login_attempts |-> 0, is_locked |-> FALSE]]
    /\ response = NoResponse
    /\ lock = NoThread
    /\ thread = [th \in Threads |-> Idle]
    /\ promised = EmptyDict
    /\ kept = EmptyDict
    /\ buckets = EmptyDict
    /\ outcome = NoOutcome
    /\ Loaded

SpecAnyThreshold == InitAnyThreshold /\ [][Next]_vars

\* --- SpecDatabase: Database.initialize, one step per creation attempt, sleep
\* and loop test, each create_async_engine call succeeding or raising as the
\* environment decides; get_session_factory between the calls.

\* what one create_async_engine(...) call can do: return an engine, raise an
\* error the except clause names, or raise one it does not name
CreateResults == {"engine", "OperationalError", "SQLAlchemyError", "ImportError"}

\* Database.initialize, "except (SQLAlchemyError, OperationalError) as e"
caught(result) == result \in {"OperationalError", "SQLAlchemyError"}

\* the loop test off by one: one more attempt than max_retries
retries_left_inclusive(retry_count, m) == retry_count <= m

\* Database.initialize, "while retry_count < max_retries"
retries_left(retry_count, m) == retry_count < m

\* a sleep after every failed attempt, the last included
sleeps_before_retry_always(retry_count, m) == TRUE

\* Database.initialize, "if retry_count < max_retries" before time.sleep
sleeps_before_retry(retry_count, m) == retry_count < m

\* sqlalchemy.exc.OperationalError(statement, params, orig): the constructor
\* of a DBAPIError takes three positional arguments; called with fewer it
\* raises TypeError and no OperationalError is built
new_OperationalError(nargs) == IF nargs >= 3 THEN "OperationalError" ELSE "TypeError"

\* Database.initialize, "raise OperationalError(f"...", None) from last_error":
\* what the statement raises
raise_after_retries == new_OperationalError(2)

\* startup_event, "except OperationalError as e": the handler logs and lets
\* the application start; any other error leaves startup_event
startup_catches(raised) == raised = "OperationalError"

\* Database.get_session_factory: the factory, or the error it raises
get_session_factory == IF _session_factory = Unset THEN "ValueError" ELSE _session_factory

\* no initialize call is running
DatabaseAtRest == starting.pc \in {"idle", "returned", "raised"}

\* what a step of the Database class leaves alone
Limiter == <<Config, attempts, blocked_until, now, last, run, users, response,
             callers, mixed>>

\* Database.initialize(database_url, echo, max_retries = m): the call starts;
\* with an engine already there it returns at once
Initialize(m) ==
    /\ DatabaseAtRest
    /\ starting.calls < MaxInitializeCalls
    /\ starting' = [NotStarting EXCEPT
                        !.pc = IF _engine = Unset THEN "while" ELSE "returned",
                        !.max_retries = m,
                        !.calls = starting.calls + 1]
    /\ UNCHANGED <<_engine, _session_factory, Limiter>>

\* "while retry_count < max_retries", and after the loop "if last_error: raise"
WhileTest ==
    /\ starting.pc = "while"
    /\ starting' =
         IF retries_left(starting.retry_count, starting.max_retries)
         THEN [starting EXCEPT !.pc = "create"]
         ELSE IF starting.last_error # Unset
              THEN [starting EXCEPT !.pc = "raised", !.raised = raise_after_retries]
              ELSE [starting EXCEPT !.pc = "returned"]
    /\ UNCHANGED <<_engine, _session_factory, Limiter>>

\* one pass of the try block: create_async_engine and sessionmaker, then
\* return; or the except clause: last_error, retry_count, and the choice
\* between sleeping and logging the failure
Create(result) ==
    /\ starting.pc = "create"
    /\ LET counted == [starting EXCEPT !.created = starting.created + 1,
                                       !.result = result] IN
       IF result = "engine"
       THEN /\ _engine' = "engine"
            /\ _session_factory' = "sessionmaker"
            /\ starting' = [counted EXCEPT !.pc = "returned"]
       ELSE IF caught(result)
       THEN /\ starting' =
                [counted EXCEPT
                    !.last_error = result,
                    !.retry_count = starting.retry_count + 1,
                    !.pc = IF sleeps_before_retry(starting.retry_count + 1,
                                                  starting.max_retries)
                           THEN "sleep" ELSE "while"]
            /\ UNCHANGED <<_engine, _session_factory>>
       ELSE /\ starting' = [counted EXCEPT !.pc = "raised", !.raised = result]
            /\ UNCHANGED <<_engine, _session_factory>>
    /\ UNCHANGED Limiter

\* time.sleep(retry_interval)
Sleep ==
    /\ starting.pc = "sleep"
    /\ starting' = [starting EXCEPT !.pc = "while", !.slept = starting.slept + 1]
    /\ UNCHANGED <<_engine, _session_factory, Limiter>>

\* Database.get_session_factory()
GetSessionFactory ==
    /\ DatabaseAtRest
    /\ starting' = [starting EXCEPT !.got = get_session_factory]
    /\ UNCHANGED <<_engine, _session_factory, Limiter>>

NextDatabase ==
    \/ \E m \in 0..MaxRetries : Initialize(m)
    \/ WhileTest
    \/ \E result \in CreateResults : Create(result)
    \/ Sleep
    \/ GetSessionFactory

\* the Database class as loaded, beside a limiter of one configuration
InitDatabase ==
    /\ Init
    /\ max_attempts = 3
    /\ window_seconds = 30
    /\ block_seconds = 30

SpecDatabase == InitDatabase /\ [][NextDatabase]_vars

\* --- SpecLift: the calls of Spec, with attempts that stop: record_attempt is
\* called up to LastAttemptTime and not after it, and the clock keeps
\* advancing (datetime.now() is the wall clock; no call holds it back).
LiftRecord(key) ==
    /\ now <= LastAttemptTime
    /\ RecordAttempt(key)

NextLift ==
    \/ Tick
    \/ \E key \in Keys : IsRateLimited(key)
    \/ \E key \in Keys : LiftRecord(key)
    \/ \E key \in Keys : Reset(key)

SpecLift == Init /\ [][NextLift]_vars /\ WF_vars(Tick)

\* --- SpecThreadsFair: the threads of SpecThreads under fair scheduling: a
\* thread inside a call is given its next step, and a thread waiting for the
\* lock gets it if the lock keeps becoming free.  No thread is obliged to
\* start a call.
Step(th) ==
    \/ LockedCheck(th)
    \/ LockedRecord(th)
    \/ LockedReset(th)
    \/ CleanupCheck(th)
    \/ CleanupFilter(th)
    \/ CleanupStore(th)
    \/ CleanupEmpty(th)
    \/ CountCheck(th)
    \/ CountSum(th)
    \/ Decide(th)

\* the limiter the fairly scheduled threads share: with max_attempts = 2 a key
\* can have attempts and no block, so that is_rate_limited goes past its lock
InitThreadsFair == InitThreads /\ max_attempts = 2

SpecThreadsFair ==
    /\ InitThreadsFair
    /\ [][NextThreads]_vars
    /\ \A th \in Threads : WF_vars(Step(th)) /\ SF_vars(Acquire(th))

\* --- SpecThreadsMinutes: two threads record attempts on one key while the
\* clock runs over minute boundaries.  A record_attempt call reads the clock
\* (line 99), waits for the lock, and does all its work under the lock with
\* the time it read.
MinuteRecord(th) == \E key \in ThreadKeys : Call(th, "record_attempt", key)

NextThreadsMinutes ==
    \/ Tick
    \/ \E th \in Threads : MinuteRecord(th)
    \/ \E th \in Threads : Acquire(th)
    \/ \E th \in Threads : LockedRecord(th)
    \/ \E th \in Threads : Return(th)

InitThreadsMinutes ==
    /\ Init
    /\ max_attempts = 3
    /\ window_seconds \in {30, 90}
    /\ block_seconds = 30

SpecThreadsMinutes == InitThreadsMinutes /\ [][NextThreadsMinutes]_vars

\* ------------------------------------------------------------- claims
\* what a call made in the current state would return and leave behind
IsRateLimitedNow(key) == is_rate_limited(attempts, blocked_until, key, now)
RecordAttemptNow(key) == record_attempt(attempts, blocked_until, key, now)
ResetNow(key) == reset(attempts, blocked_until, key)

\* C1: for a key with a stored block, is_rate_limited reports the key limited
\* exactly when blocked_until[key] > now, and then returns (true, blocked_until[key])
\* whatever attempts[key] holds; a stored block with blocked_until[key] <= now is
\* expired: it is removed and the key is not limited.
C1_StoredBlockDecides ==
    \A key \in DOMAIN blocked_until :
        LET r == IsRateLimitedNow(key) IN
        /\ r.is_limited <=> blocked_until[key] > now
        /\ blocked_until[key] > now =>
               /\ r.blocked_until = blocked_until[key]
               /\ ~r.expired
        /\ blocked_until[key] <= now =>
               /\ r.expired
               /\ r.blocked_until = None
               /\ key \notin DOMAIN r.blk

\* C1 witness: is_rate_limited has just reported a stored block for a key whose
\* attempts are below the threshold.
C1_Witness ==
    /\ last.op = "is_rate_limited"
    /\ last.is_limited
    /\ last.stored = last.until
    /\ last.key \in DOMAIN blocked_until
    /\ last.until = blocked_until[last.key]
    /\ blocked_until[last.key] > now
    /\ Recorded(attempts, last.key) < max_attempts

\* C3: record_attempt returns true exactly when the key's bucket counts, the new
\* attempt included, sum to max_attempts or more, and then stores
\* blocked_until[key] = now + block_seconds; otherwise it returns false and leaves
\* blocked_until as it was.
C3_RecordAttemptResult ==
    \A key \in Keys :
        LET r == RecordAttemptNow(key) IN
        /\ key \in DOMAIN r.att
        /\ r.ret <=> Sum(r.att[key]) >= max_attempts
        /\ r.ret => key \in DOMAIN r.blk /\ r.blk[key] = now + block_seconds
        /\ ~r.ret => r.blk = blocked_until

\* C3 witness: a record_attempt has just returned true with the sum exactly at
\* the threshold, and the block it stored is in place.
C3_Witness ==
    /\ last.op = "record_attempt"
    /\ last.is_limited
    /\ Sum(attempts[last.key]) = max_attempts
    /\ max_attempts > 1
    /\ blocked_until[last.key] = now + block_seconds

\* the times the clock can show from now on
LaterTimes == {t \in now..MaxTime : (t - now) % TickSeconds = 0}

\* C6: after reset(key), whatever the key held, the key is in neither dictionary,
\* is_rate_limited(key) at once returns (false, None), and with max_attempts > 1
\* the next record_attempt(key), whenever it is made, returns false.
C6_ResetRestoresQuota ==
    \A key \in Keys :
        LET r == ResetNow(key)
            q == is_rate_limited(r.att, r.blk, key, now)
        IN /\ key \notin DOMAIN r.att
           /\ key \notin DOMAIN r.blk
           /\ ~q.is_limited
           /\ q.blocked_until = None
           /\ max_attempts > 1 =>
                  \A t \in LaterTimes : ~record_attempt(r.att, r.blk, key, t).ret

\* C6 witness: reset has just been called on a key that was blocked with a block
\* still running, and the key is gone from both dictionaries.
C6_Witness ==
    /\ last.op = "reset"
    /\ last.stored > now
    /\ last.recent >= max_attempts
    /\ last.key \notin DOMAIN attempts
    /\ last.key \notin DOMAIN blocked_until

\* C7: reset never raises; on a key with no entries it changes nothing; reset
\* twice leaves what reset once leaves.
C7_ResetIdempotent ==
    \A key \in Keys :
        LET r == ResetNow(key)
            rr == reset(r.att, r.blk, key)
        IN /\ ~r.error
           /\ ~rr.error
           /\ rr.att = r.att
           /\ rr.blk = r.blk
           /\ (key \notin DOMAIN attempts /\ key \notin DOMAIN blocked_until) =>
                  (r.att = attempts /\ r.blk = blocked_until)

\* C7 witness: reset has just been called on a key that had no entries, while
\* the other key's entries are still there.
C7_Witness ==
    /\ last.op = "reset"
    /\ last.stored = None
    /\ last.recent = 0
    /\ DOMAIN attempts # {}
    /\ DOMAIN blocked_until # {}

\* what the dictionaries hold for one key
Entry(att, blk, key) ==
    <<IF key \in DOMAIN att THEN att[key] ELSE EmptyDict, key \in DOMAIN att,
      IF key \in DOMAIN blk THEN blk[key] ELSE None>>

\* what is_rate_limited(key) returns from the given dictionaries
Verdict(att, blk, key) ==
    LET q == is_rate_limited(att, blk, key, now) IN <<q.is_limited, q.blocked_until>>

\* the dictionaries each of the three calls on a key leaves
Outcomes(key) ==
    {<<IsRateLimitedNow(key).att, IsRateLimitedNow(key).blk>>,
     <<RecordAttemptNow(key).att, RecordAttemptNow(key).blk>>,
     <<ResetNow(key).att, ResetNow(key).blk>>}

\* C8: no is_rate_limited, record_attempt or reset call on a key k1 changes what
\* attempts and blocked_until hold for another key k2, nor what
\* is_rate_limited(k2) returns.
C8_KeyIsolation ==
    \A k1 \in Keys : \A k2 \in Keys \ {k1} : \A o \in Outcomes(k1) :
        /\ Entry(o[1], o[2], k2) = Entry(attempts, blocked_until, k2)
        /\ Verdict(o[1], o[2], k2) = Verdict(attempts, blocked_until, k2)

\* C8 witness: a record_attempt has just blocked one key while the other key
\* holds attempts and no block.
C8_Witness ==
    /\ last.op = "record_attempt"
    /\ last.is_limited
    /\ \E k2 \in Keys \ {last.key} :
           /\ k2 \in DOMAIN attempts
           /\ k2 \notin DOMAIN blocked_until
           /\ ~IsRateLimitedNow(k2).is_limited

\* C9: when is_rate_limited finds a stored block that has expired, it removes
\* the block and the key's attempts and returns (false, None), also when the
\* attempts removed were max_attempts or more and inside the window.
C9_ExpiryClearsHistory ==
    \A key \in DOMAIN blocked_until :
        blocked_until[key] <= now =>
            LET r == IsRateLimitedNow(key) IN
            /\ r.expired
            /\ ~r.is_limited
            /\ r.blocked_until = None
            /\ key \notin DOMAIN r.blk
            /\ key \notin DOMAIN r.att

\* C9 witness: is_rate_limited has just found an expired block on a key whose
\* attempts inside the window were at the threshold, and returned (false, None).
C9_Witness ==
    /\ last.op = "is_rate_limited"
    /\ last.expired
    /\ last.stored # None
    /\ last.stored <= now
    /\ last.recent >= max_attempts
    /\ ~last.is_limited
    /\ last.until = None
    /\ last.key \notin DOMAIN attempts
    /\ last.key \notin DOMAIN blocked_until

\* the time T at which the block stored for a key was installed
BlockedAt(key) == blocked_until[key] - block_seconds

\* C10 as stated: a key blocked at T is reported limited at every time t with
\* T < t <= T + block_seconds, and not limited, its attempts cleared, at every
\* t > T + block_seconds.
C10_Original ==
    \A key \in DOMAIN blocked_until :
        LET T == BlockedAt(key)
            r == IsRateLimitedNow(key)
        IN /\ (T < now /\ now <= T + block_seconds) => r.is_limited
           /\ now > T + block_seconds =>
                  (~r.is_limited /\ key \notin DOMAIN r.att)

\* C10 amended: a key blocked at T is reported limited, with expiry
\* T + block_seconds, at every time t with T <= t < T + block_seconds, and not
\* limited, its attempts and block cleared, at every t >= T + block_seconds.
C10_BlockInterval ==
    \A key \in DOMAIN blocked_until :
        LET T == BlockedAt(key)
            r == IsRateLimitedNow(key)
        IN /\ (T <= now /\ now < T + block_seconds) =>
                  (r.is_limited /\ r.blocked_until = T + block_seconds)
           /\ now >= T + block_seconds =>
                  /\ ~r.is_limited
                  /\ r.blocked_until = None
                  /\ key \notin DOMAIN r.att
                  /\ key \notin DOMAIN r.blk

\* C10 witness: is_rate_limited has just been called at the very second a block
\* ran out, and reported the key not limited.
C10_Witness ==
    /\ last.op = "is_rate_limited"
    /\ last.stored = now
    /\ last.recent > 0
    /\ ~last.is_limited
    /\ last.key \notin DOMAIN attempts
    /\ last.key \notin DOMAIN blocked_until

\* the latest call was a record_attempt on the key, the n-th of a run, and the
\* clock has not moved since
RunJustRecorded(key) ==
    /\ run.n > 0
    /\ run.key = key
    /\ last.op = "record_attempt"
    /\ last.key = key

\* C2 as stated: after the n-th record_attempt of a run that began with no
\* entries for the key and spans less than window_seconds, an is_rate_limited
\* call made right away returns (false, None) if n < max_attempts and (true, t)
\* with t > now if n >= max_attempts.
C2_Original ==
    \A key \in Keys :
        (RunJustRecorded(key) /\ now - run.first < window_seconds) =>
            LET q == IsRateLimitedNow(key) IN
            /\ run.n < max_attempts => (~q.is_limited /\ q.blocked_until = None)
            /\ run.n >= max_attempts => (q.is_limited /\ q.blocked_until > now)

\* the minute bucket of the run's first call is still inside the window
RunInWindow == current_minute(run.first) >= now - window_seconds

RunJustFailed(key) ==
    /\ run.n > 0
    /\ run.key = key
    /\ last.op = "authenticate_user"
    /\ last.key = key

\* C5 as stated: with max_attempts = N, each of the first N consecutive failed
\* login requests for a key reaches the credential check and ends with an error
\* that is not the rate limit, and the (N+1)-th is rejected as rate limited.
C5_Original ==
    \A key \in Keys :
        (RunJustFailed(key) /\ RunInWindow) =>
            /\ run.n <= max_attempts =>
                   (response.status = 401 /\ response.stage \in {"not_found", "bad_password"})
            /\ run.n = max_attempts + 1 => response.status = 429

\* the attempt a record_attempt(key) made now records is part of the key's
\* count at time t: the count of the dictionaries the call leaves is one more
\* than the count without the attempt
AttemptCounted(key, t) ==
    _count_recent_attempts(RecordAttemptNow(key).att, key, t)
        = _count_recent_attempts(_cleanup(attempts, key, now), key, t) + 1

\* C11 as stated: an attempt recorded by record_attempt(key) at time T, with no
\* reset or block expiry afterwards, is part of the key's count at every time t
\* with T <= t < T + window_seconds and is not at any t > T + window_seconds.
C11_Original ==
    \A key \in Keys : \A t \in LaterTimes :
        /\ t < now + window_seconds => AttemptCounted(key, t)
        /\ t > now + window_seconds => ~AttemptCounted(key, t)

\* C12 as stated: whatever window_seconds is and whichever second of the minute
\* the calls fall on, once max_attempts or more record_attempt calls of a run
\* have been made within window_seconds, is_rate_limited reports the key limited.
C12_Original ==
    \A key \in Keys :
        (/\ RunJustRecorded(key)
         /\ run.n >= max_attempts
         /\ now - run.first < window_seconds) =>
            IsRateLimitedNow(key).is_limited

\* C13: is_rate_limited on a key with an active block changes nothing: attempts,
\* stale buckets of the key included, and blocked_until are after the call what
\* they were before it.
C13_ActiveBlockFrame ==
    \A key \in DOMAIN blocked_until :
        blocked_until[key] > now =>
            /\ IsRateLimitedNow(key).att = attempts
            /\ IsRateLimitedNow(key).blk = blocked_until

\* C13 witness: is_rate_limited has just reported the active block of a key, and
\* the key still has a bucket older than the window.
C13_Witness ==
    /\ last.op = "is_rate_limited"
    /\ last.is_limited
    /\ last.stored > now
    /\ last.until = last.stored
    /\ last.key \in DOMAIN attempts
    /\ \E ts \in DOMAIN attempts[last.key] : ts < now - window_seconds

\* the keys a call on the key may have added to a dictionary
Added(before, after) == DOMAIN after \ DOMAIN before

\* C14: for a key in neither dictionary is_rate_limited returns (false, None)
\* and leaves both dictionaries as they were; no is_rate_limited or reset call
\* adds a key to attempts, and a key is added to blocked_until only by a call
\* that reports it limited.
C14_UnknownKey ==
    \A key \in Keys :
        LET r == IsRateLimitedNow(key) IN
        /\ Fresh(key) =>
               /\ ~r.is_limited
               /\ r.blocked_until = None
               /\ r.att = attempts
               /\ r.blk = blocked_until
        /\ Added(attempts, r.att) = {}
        /\ Added(blocked_until, r.blk) \subseteq (IF r.is_limited THEN {key} ELSE {})
        /\ Added(attempts, ResetNow(key).att) = {}
        /\ Added(blocked_until, ResetNow(key).blk) = {}

\* C14 witness: is_rate_limited has just been called on a key that had no
\* entries, while the other key has entries, and returned (false, None).
C14_Witness ==
    /\ last.op = "is_rate_limited"
    /\ now < window_seconds
    /\ last.stored = None
    /\ last.recent = 0
    /\ ~last.is_limited
    /\ last.until = None
    /\ Fresh(last.key)
    /\ DOMAIN attempts # {}

\* C15 as stated: every read or write of attempts or blocked_until made by a
\* call happens while the caller holds the lock, so no two callers are at such
\* code at the same time.
C15_Original ==
    /\ \A th \in Threads : thread[th].pc \in AccessPcs => lock = th
    /\ \A th \in Threads : \A o \in Threads \ {th} :
           ~(thread[th].pc \in AccessPcs /\ thread[o].pc \in AccessPcs)

\* C16 as stated, for the calls that also end before the expiry: once a
\* record_attempt(k) has returned true, an is_rate_limited(k) call that starts
\* afterwards, with no reset(k) since, and ends before the expiry time of that
\* block returns true - whatever other calls on k overlap with it.
C16_Original ==
    \A th \in Threads :
        (/\ thread[th].pc = "done"
         /\ thread[th].op = "is_rate_limited"
         /\ thread[th].must # None
         /\ now < thread[th].must) =>
            thread[th].result.is_limited

\* C17 as stated: an attempt a record_attempt(k) call recorded stays in k's
\* count for as long as its bucket is inside the window, k's block has not
\* expired and reset(k) has not been called; no other call, overlapping ones
\* included, removes it or lowers the bucket's count.
C17_Original ==
    \A key \in DOMAIN kept : \A ts \in DOMAIN kept[key] :
        ts >= now - window_seconds =>
            /\ key \in DOMAIN attempts
            /\ ts \in DOMAIN attempts[key]
            /\ attempts[key][ts] >= kept[key][ts]

\* what a login request made in the current state would end with
LoginNow(ip, username, password_ok) ==
    authenticate_user(attempts, blocked_until, users, ip, username, password_ok, now)

\* C18: when the pre-flight is_rate_limited check of authenticate_user reports
\* the key limited, the request is rejected as rate limited at that check:
\* attempts, blocked_until and the users' failed_login_attempts are left as
\* they were, so a rejected request never extends a block.
C18_PreflightRejects ==
    \A ip \in IPs, username \in Usernames, password_ok \in BOOLEAN :
        LET o == LoginNow(ip, username, password_ok) IN
        IsRateLimitedNow(RateLimitKey(ip, username)).is_limited =>
            /\ o.status = 429
            /\ o.stage = "preflight"
            /\ o.att = attempts
            /\ o.blk = blocked_until
            /\ o.users = users

\* C18 witness: a login request has just been rejected at the pre-flight check
\* for a key blocked by earlier failed requests, and the block is the one that
\* was stored before the request.
C18_Witness ==
    /\ last.op = "authenticate_user"
    /\ response.status = 429
    /\ response.stage = "preflight"
    /\ last.stored > now
    /\ run.n >= 2
    /\ blocked_until[last.key] = last.stored

\* the dictionaries after n more record_attempt(key) calls made now
RECURSIVE Recording(_, _, _, _)
Recording(att, blk, key, n) ==
    IF n = 0 THEN [ret |-> FALSE, att |-> att, blk |-> blk]
    ELSE LET before == Recording(att, blk, key, n - 1)
         IN record_attempt(before.att, before.blk, key, now)

\* C19: a login request that succeeds leaves the key with no recorded attempts
\* and no block: is_rate_limited reports it not limited, and of the
\* record_attempt calls that follow none below the max_attempts-th returns true.
C19_SuccessResets ==
    \A ip \in IPs, username \in Usernames, password_ok \in BOOLEAN :
        LET o == LoginNow(ip, username, password_ok)
            key == RateLimitKey(ip, username)
        IN o.status = 200 =>
               /\ key \notin DOMAIN o.att
               /\ key \notin DOMAIN o.blk
               /\ ~is_rate_limited(o.att, o.blk, key, now).is_limited
               /\ \A n \in 1..(max_attempts - 1) : ~Recording(o.att, o.blk, key, n).ret

\* C19 witness: a login request has just succeeded for a key that had failed
\* attempts recorded, and the key is now in neither dictionary.
C19_Witness ==
    /\ last.op = "authenticate_user"
    /\ response.status = 200
    /\ response.stage = "ok"
    /\ last.recent >= 1
    /\ Fresh(last.key)

\* the bucket's timestamp is a string that stands for no time
Uninterpretable(ts) == ts[1] = "str" /\ convert(ts[2]).raised # "none"

\* C20 as stated: with a bucket stored under a timestamp that cannot be
\* interpreted as a time, neither _count_recent_attempts nor _cleanup raises,
\* whatever now is: the count includes the bucket and the cleanup keeps it.
C20_Original ==
    \A key \in DOMAIN buckets : \A ts \in DOMAIN buckets[key] :
        Uninterpretable(ts) =>
            /\ count_mixed(buckets, key, now).raised = "none"
            /\ count_bucket(ts, now) = "counted"
            /\ cleanup_mixed(buckets, key, now).raised = "none"
            /\ key \in DOMAIN cleanup_mixed(buckets, key, now).att
            /\ ts \in DOMAIN cleanup_mixed(buckets, key, now).att[key]

\* the block stored for the key has run out: now has reached blocked_until[key]
BlockPassed(key) == key \in DOMAIN blocked_until /\ now >= blocked_until[key]

\* C21 as stated: a key whose block has expired starts from zero recorded
\* attempts; the first record_attempt made after blocked_until[key] has passed
\* leaves a count of 1 (and returns false when max_attempts > 1), whether or
\* not is_rate_limited was called since the expiry.
C21_Original ==
    \A key \in Keys :
        BlockPassed(key) =>
            /\ Sum(RecordAttemptNow(key).att[key]) = 1
            /\ max_attempts > 1 => ~RecordAttemptNow(key).ret

\* C22 as stated: while blocked_until[key] is in the future, no record_attempt
\* call on the key changes blocked_until[key].
C22_Original ==
    \A key \in Keys :
        still_blocked(blocked_until, key, now) =>
            RecordAttemptNow(key).blk = blocked_until

\* C22: while blocked_until[key] is in the future, a record_attempt call on
\* the key whose count after the purge reaches max_attempts replaces
\* blocked_until[key] by now + block_seconds, never an earlier time than the
\* one stored; a call whose count stays below max_attempts leaves it as it
\* is.  No record_attempt removes a block or touches another key's block.
C22_BlockedRecordAttempt ==
    \A key \in Keys :
        still_blocked(blocked_until, key, now) =>
            LET r == RecordAttemptNow(key) IN
            /\ DOMAIN r.blk = DOMAIN blocked_until
            /\ \A other \in DOMAIN blocked_until \ {key} :
                   r.blk[other] = blocked_until[other]
            /\ r.blk[key] >= blocked_until[key]
            /\ IF Sum(r.att[key]) >= max_attempts
               THEN r.ret /\ r.blk[key] = now + block_seconds
               ELSE ~r.ret /\ r.blk[key] = blocked_until[key]

\* C22 witness: a record_attempt has just been made on a key whose block was
\* still in the future, and the block now ends later than it did.
C22_Witness ==
    /\ last.op = "record_attempt"
    /\ last.stored # None
    /\ now < last.stored
    /\ last.is_limited
    /\ blocked_until[last.key] = now + block_seconds
    /\ blocked_until[last.key] > last.stored

\* C23 as stated: for a key with no block entry, whatever its attempts and
\* for every max_attempts >= 0, is_rate_limited returns (true, now +
\* block_seconds) and stores that block exactly when the attempts in buckets
\* with timestamp >= now - window_seconds number at least max_attempts;
\* otherwise it returns (false, None) and stores no block.
C23_Original ==
    \A key \in Keys :
        key \notin DOMAIN blocked_until =>
            LET r == IsRateLimitedNow(key) IN
            IF _count_recent_attempts(attempts, key, now) >= max_attempts
            THEN /\ r.is_limited
                 /\ r.blocked_until = now + block_seconds
                 /\ r.blk = Put(blocked_until, key, now + block_seconds)
            ELSE /\ ~r.is_limited
                 /\ r.blocked_until = None
                 /\ r.blk = blocked_until

\* C24: Database.initialize calls create_async_engine at most max_retries
\* times and never again after a success; it sleeps once after each failed
\* attempt that another attempt follows and not after the last one.  So a
\* call that succeeds on attempt j has made j creation calls and j - 1
\* sleeps, and one that gives up has made one sleep less than its attempts.
C24_RetrySchedule ==
    LET s == starting IN
    /\ s.created <= s.max_retries
    /\ s.result = "engine" =>
           /\ s.pc = "returned"
           /\ s.created = s.retry_count + 1
           /\ s.slept = s.created - 1
    /\ s.pc = "create" => s.slept = s.created
    /\ s.pc = "sleep" => s.slept = s.created - 1 /\ s.created < s.max_retries
    /\ s.pc = "while" =>
           \/ s.slept = s.created
           \/ s.created = s.max_retries /\ s.slept = s.created - 1
    /\ (s.pc \in {"returned", "raised"} /\ s.created > 0) => s.slept = s.created - 1

\* C24 witness: initialize has returned after two failed attempts and a third
\* that succeeded, having slept twice.
C24_Witness ==
    /\ starting.pc = "returned"
    /\ starting.result = "engine"
    /\ starting.max_retries = 3
    /\ starting.created = 3
    /\ starting.slept = 2
    /\ _engine # Unset

\* every attempt of the initialize call failed with an error the except clause
\* names, and the call has ended in the raise that follows the loop
GaveUp ==
    /\ starting.pc = "raised"
    /\ caught(starting.result)
    /\ starting.retry_count = starting.max_retries

\* C25 as stated: when all max_retries creation attempts fail, initialize
\* raises OperationalError, the error startup_event catches, after exactly
\* max_retries creation calls, and the engine and the session factory stay
\* unset, so that get_session_factory raises ValueError.
C25_Original ==
    GaveUp =>
        /\ starting.raised = "OperationalError"
        /\ startup_catches(starting.raised)
        /\ starting.created = starting.max_retries
        /\ _engine = Unset
        /\ _session_factory = Unset
        /\ get_session_factory = "ValueError"

\* the buckets of the key whose timestamp is exactly window_seconds before now
AtBoundary(key) ==
    IF key \in DOMAIN attempts
    THEN {ts \in DOMAIN attempts[key] : ts + window_seconds = now}
    ELSE {}

\* C26 as stated: a bucket whose timestamp is exactly window_seconds before
\* now is stale: _count_recent_attempts leaves it out of the count and
\* _cleanup removes it.
C26_Original ==
    \A key \in Keys : \A ts \in AtBoundary(key) :
        /\ _count_recent_attempts(attempts, key, now) =
               SumOver(attempts[key], {x \in DOMAIN attempts[key] : x + window_seconds > now})
        /\ \/ key \notin DOMAIN _cleanup(attempts, key, now)
           \/ ts \notin DOMAIN _cleanup(attempts, key, now)[key]

\* C26: a bucket whose timestamp is exactly window_seconds before now is
\* still inside the window: _count_recent_attempts counts it and _cleanup
\* keeps it with its count; the buckets left out and removed are those more
\* than window_seconds old.
C26_BoundaryInWindow ==
    \A key \in Keys : \A ts \in AtBoundary(key) :
        /\ _count_recent_attempts(attempts, key, now) =
               attempts[key][ts] +
               SumOver(attempts[key], {x \in DOMAIN attempts[key] : x + window_seconds > now})
        /\ key \in DOMAIN _cleanup(attempts, key, now)
        /\ DOMAIN _cleanup(attempts, key, now)[key] =
               {x \in DOMAIN attempts[key] : x + window_seconds >= now}
        /\ _cleanup(attempts, key, now)[key][ts] = attempts[key][ts]

\* C26 witness: is_rate_limited has just purged and counted the buckets of a
\* key, and the bucket exactly window_seconds old is still stored.
C26_Witness ==
    /\ last.op = "is_rate_limited"
    /\ ~last.is_limited
    /\ last.stored = None
    /\ AtBoundary(last.key) # {}
    /\ last.recent >= 1

\* the buckets of the key that are at most window_seconds old
Retained(key) ==
    IF key \in DOMAIN attempts
    THEN {ts \in DOMAIN attempts[key] : ts + window_seconds >= now}
    ELSE {}

\* C27: _cleanup(key, now) keeps exactly the buckets of the key with
\* timestamp >= now - window_seconds, their counts unchanged, drops the key
\* when no bucket is left and leaves every other key alone;
\* _count_recent_attempts(key, now) returns the sum of exactly those buckets'
\* counts, so the count before a cleanup and the count after it, at the same
\* now, are the same number.
C27_CleanupAndCountAgree ==
    \A key \in Keys :
        LET cleaned == _cleanup(attempts, key, now) IN
        /\ key \in DOMAIN cleaned <=> Retained(key) # {}
        /\ key \in DOMAIN cleaned =>
               /\ DOMAIN cleaned[key] = Retained(key)
               /\ \A ts \in Retained(key) : cleaned[key][ts] = attempts[key][ts]
        /\ \A other \in Keys \ {key} :
               Entry(cleaned, blocked_until, other) = Entry(attempts, blocked_until, other)
        /\ _count_recent_attempts(attempts, key, now) =
               IF key \in DOMAIN attempts
               THEN SumOver(attempts[key], Retained(key))
               ELSE 0
        /\ _count_recent_attempts(cleaned, key, now) =
               _count_recent_attempts(attempts, key, now)

\* C27 witness: a key has a bucket older than the window beside one inside
\* it, so that a cleanup removes the one and keeps the other, and the count
\* is less than what is stored.
C27_Witness ==
    \E key \in DOMAIN attempts :
        /\ Retained(key) # {}
        /\ Retained(key) # DOMAIN attempts[key]
        /\ _count_recent_attempts(attempts, key, now) < Sum(attempts[key])
        /\ DOMAIN _cleanup(attempts, key, now)[key] = Retained(key)

\* C28 as stated: no count used for a blocking decision at time now includes
\* a bucket whose timestamp is earlier than now - window_seconds: neither the
\* sum record_attempt takes over the buckets it leaves, nor the count
\* is_rate_limited takes after its purge.
C28_Original ==
    \A key \in Keys :
        /\ \A ts \in DOMAIN RecordAttemptNow(key).att[key] :
               ts >= now - window_seconds
        /\ key \in DOMAIN IsRateLimitedNow(key).att =>
               \A ts \in DOMAIN IsRateLimitedNow(key).att[key] :
                   ts >= now - window_seconds

\* C29: between the calls, attempts maps no key to an empty bucket map; a key
\* whose buckets were all purged is in attempts no longer.
C29_NoEmptyBucketMap ==
    \A key \in DOMAIN attempts : DOMAIN attempts[key] # {}

\* C29 witness: a key that is not blocked has buckets stored and all of them
\* are older than the window, and the is_rate_limited call that purges them
\* leaves the key out of attempts.
C29_Witness ==
    \E key \in DOMAIN attempts :
        /\ key \notin DOMAIN blocked_until
        /\ \A ts \in DOMAIN attempts[key] : ts < now - window_seconds
        /\ key \notin DOMAIN IsRateLimitedNow(key).att
        /\ ~IsRateLimitedNow(key).expired

\* an is_rate_limited(key) call made now returns (false, None) and leaves the
\* key in neither dictionary
Lifted(key) ==
    LET r == IsRateLimitedNow(key) IN
    /\ ~r.is_limited
    /\ r.blocked_until = None
    /\ key \notin DOMAIN r.att
    /\ key \notin DOMAIN r.blk

\* C30: a block lifts by itself.  When a key is blocked and the attempts on
\* it stop while the clock keeps advancing, a time comes from which
\* is_rate_limited(key) returns (false, None) and leaves the key absent from
\* attempts and from blocked_until.
C30_BlockLifts ==
    \A key \in Keys :
        (key \in DOMAIN blocked_until) ~> Lifted(key)

\* C30 witness: an is_rate_limited call has just found the block of a key
\* expired, returned (false, None), and the key is in neither dictionary.
C30_Witness ==
    /\ last.op = "is_rate_limited"
    /\ last.stored # None
    /\ last.expired
    /\ ~last.is_limited
    /\ last.until = None
    /\ last.key \notin DOMAIN attempts
    /\ last.key \notin DOMAIN blocked_until

\* the thread is inside a call that has not ended
InCall(th) == thread[th].pc \in {"acquire"} \cup AccessPcs

\* the thread's call has ended, with its return value or its exception
CallEnded(th) == thread[th].pc \in {"done", "raised"}

\* C31, the lock: a thread holds the lock only between entering and leaving
\* its "with self._lock" block; a call that has left the block, by an early
\* return or not, holds it no longer, and a thread that waits for the lock
\* does not hold it.
C31_LockHeldOnlyInside ==
    /\ \A th \in Threads : lock = th <=> thread[th].pc = "locked"
    /\ lock \in Threads \cup {NoThread}

\* C31: no deadlock.  Under fair scheduling every call that was started ends:
\* the caller gets control back and the lock is free for the next caller.
C31_EveryCallEnds ==
    /\ []C31_LockHeldOnlyInside
    /\ \A th \in Threads : InCall(th) ~> CallEnded(th)

\* C31 witness: both threads are in a call, one holds the lock and the other
\* waits for it.
C31_Witness ==
    \E th \in Threads : \E o \in Threads \ {th} :
        /\ lock = th
        /\ thread[th].pc = "locked"
        /\ thread[o].pc = "acquire"

\* C32 as stated: under any interleaving of concurrent is_rate_limited,
\* record_attempt and reset calls on one key, no call ends with an exception.
C32_Original ==
    \A th \in Threads : thread[th].pc # "raised"

\* a reset(key) call has returned, no record_attempt on the key has run since
\* it or is in a call now, and the calls that were in flight have finished
ResetSettled(key) ==
    /\ \E th \in Threads :
           /\ thread[th].op = "reset"
           /\ thread[th].key = key
           /\ thread[th].pc = "done"
    /\ key \notin DOMAIN kept
    /\ \A th \in Threads :
           /\ ~InCall(th)
           /\ thread[th].op # "record_attempt"

\* C33 as stated: reset takes effect while is_rate_limited calls on the key
\* are in flight.  Once reset(key) has returned and no record_attempt(key) is
\* in flight or starts afterwards, the key has no block entry when the calls
\* in flight have finished, and an is_rate_limited(key) call made then returns
\* (false, None).
C33_Original ==
    \A key \in ThreadKeys :
        ResetSettled(key) =>
            /\ key \notin DOMAIN blocked_until
            /\ ~IsRateLimitedNow(key).is_limited

\* the most buckets a window of window_seconds can span
MostBuckets == (window_seconds \div MinuteSeconds) + 1

\* C34 as stated: with a clock that never goes back, after every public
\* operation the bucket map of a key holds at most
\* floor(window_seconds / 60) + 1 buckets, however many attempts were made.
C34_Original ==
    \A key \in DOMAIN attempts :
        Cardinality(DOMAIN attempts[key]) <= MostBuckets

\* C35: with calls that do not overlap and max_attempts >= 1, a key whose
\* stored bucket counts sum to max_attempts or more has an entry in
\* blocked_until; so an is_rate_limited call never installs a block: the
\* blocks it leaves are blocks that were stored before it, unchanged.
C35_OverLimitIsBlocked ==
    /\ max_attempts >= 1
    /\ \A key \in DOMAIN attempts :
           Sum(attempts[key]) >= max_attempts => key \in DOMAIN blocked_until
    /\ \A key \in Keys :
           LET r == IsRateLimitedNow(key) IN
           /\ DOMAIN r.blk \subseteq DOMAIN blocked_until
           /\ \A k \in DOMAIN r.blk : r.blk[k] = blocked_until[k]

\* C35 witness: a record_attempt has just brought the stored count of a key
\* to max_attempts, with attempts in more than one call, and the key has its
\* block entry.
C35_Witness ==
    /\ last.op = "record_attempt"
    /\ last.is_limited
    /\ last.stored = None
    /\ max_attempts >= 2
    /\ Sum(attempts[last.key]) >= max_attempts
    /\ blocked_until[last.key] = now + block_seconds

\* C36 as stated: with a clock that never goes back, a step that replaces the
\* stored blocked_until[key] stores an expiry at or after the one it
\* replaces, under any interleaving of callers that read the clock before
\* they take the lock.  (A reset removes the entry and replaces nothing.)
C36_Original ==
    [][\A key \in DOMAIN blocked_until :
           key \in DOMAIN blocked_until' => blocked_until'[key] >= blocked_until[key]]_vars

\* C37, the state part: while a user's is_locked flag is set, no
\* authenticate_user call returns the user, whatever the password, and the
\* call leaves the flag set.  unlock_user_account returns true exactly when
\* the user exists and is locked; it then clears is_locked and
\* failed_login_attempts, and otherwise changes nothing.
C37_LockedStaysOut ==
    /\ \A username \in DOMAIN users :
           users[username].is_locked =>
               \A ip \in IPs, password_ok \in BOOLEAN :
                   LET o == LoginNow(ip, username, password_ok) IN
                   /\ o.status # 200
                   /\ o.users[username].is_locked
    /\ \A user_id \in Usernames :
           LET r == unlock_user_account(users, user_id) IN
           /\ r.ret <=> (user_id \in DOMAIN users /\ users[user_id].is_locked)
           /\ r.ret => /\ ~r.users[user_id].is_locked
                       /\ r.users[user_id].failed_login_attempts = 0
                       /\ \A o \in DOMAIN users \ {user_id} : r.users[o] = users[o]
           /\ ~r.ret => r.users = users

\* C37, the step part: a set is_locked flag is cleared by unlock_user_account
\* or reset_password and by no other call.
C37_OnlyUnlockClears ==
    \A username \in DOMAIN users :
        (users[username].is_locked /\ ~users'[username].is_locked) =>
            response'.stage \in {"unlock_user_account", "reset_password"}

\* C37: once a user is locked, authenticate_user does not return that user,
\* not even for the correct password, until unlock_user_account or
\* reset_password clears the flag.
C37_LockedUntilUnlocked ==
    []C37_LockedStaysOut /\ [][C37_OnlyUnlockClears]_vars

\* C37 witness: a login with the correct password has just been refused
\* because the account is locked.
C37_Witness ==
    /\ last.op = "authenticate_user"
    /\ response.status = 401
    /\ response.stage = "locked"
    /\ \E username \in DOMAIN users :
           /\ users[username].is_locked
           /\ unlock_user_account(users, username).ret

\* C38 as stated: whenever Database.initialize returns without raising, the
\* engine and the session factory are both set and a get_session_factory()
\* call that follows succeeds, for every max_retries, 0 included.
C38_Original ==
    starting.pc = "returned" =>
        /\ _engine # Unset
        /\ _session_factory # Unset
        /\ get_session_factory # "ValueError"

====
